---- MODULE Spec2Model ----
(***************************************************************************)
(* Link annotations of printpdf (src/link_annotation.rs): the encoders of  *)
(* a LinkAnnotation into lopdf objects, and the LinkAnnotationList that    *)
(* names the annotations "PT0", "PT1", ... and hands them over.            *)
(*                                                                         *)
(* f32 values are modelled by integers (every value used is an f32 that    *)
(* is exactly an integer); an lopdf Object is a record tagged with its     *)
(* variant; a lopdf Dictionary is the sequence of its <<key, value>>       *)
(* entries in insertion order; a HashMap is a function on its key set.     *)
(* A panic is the value Panic(msg), which is no Object.                    *)
(***************************************************************************)
EXTENDS Integers, Sequences, FiniteSets, TLC

VARIABLES
    link_annotations,  \* LinkAnnotationList.link_annotations: name -> LinkAnnotation
    state,             \* "open", or "consumed" once the list was moved out of
    issued,            \* history: <<[name, annotation]>>, one per add_link_annotation call, in call order
    output,            \* what the consuming operation produced ([op |-> "none"] while open)
    call,              \* the last encoder call: [op, arg (, ctx)]
    result             \* what that call evaluated to: an Object, or Panic(msg)

vars == <<link_annotations, state, issued, output, call, result>>

(***************************** bounds **************************************)
\* Highest page index a Destination names.
MaxPage == 1
\* Longest DashPhase.dash_array.
MaxDashLen == 2
\* Most add_link_annotation calls on one list (Spec).
MaxCalls == 3
\* Most add_link_annotation calls on one list (SpecNames).
MaxNameCalls == 11

(***************************** Option<T> ***********************************)
None == [some |-> FALSE]
Some(x) == [some |-> TRUE, v |-> x]
unwrap_or(opt, d) == IF opt.some THEN opt.v ELSE d

(***************************** lopdf::Object *******************************)
Null == [tag |-> "Null"]
Real(x) == [tag |-> "Real", r |-> x]
Name(s) == [tag |-> "Name", name |-> s]
String(s) == [tag |-> "String", bytes |-> s, format |-> "Literal"]
Array(items) == [tag |-> "Array", items |-> items]
Reference(id) == [tag |-> "Reference", id |-> id]
Dictionary(d) == [tag |-> "Dictionary", dict |-> d]

\* What a call evaluates to: the value it returns (an Object is itself; any other
\* value is wrapped in Ok), or a panic.
Ok(v) == [ok |-> v]
Panic(msg) == [panic |-> msg]
IsPanic(x) == "panic" \in DOMAIN x
IsObject(x) == "tag" \in DOMAIN x

(***************************** lopdf::Dictionary ***************************)
Dictionary_new == <<>>

Dict_keys(d) == {d[i][1] : i \in 1..Len(d)}

\* Dictionary::set: replaces the value of a key already present, else appends.
Dict_set(d, k, v) ==
    IF k \in Dict_keys(d)
    THEN [i \in 1..Len(d) |-> IF d[i][1] = k THEN <<k, v>> ELSE d[i]]
    ELSE Append(d, <<k, v>>)

(***************************** Pt, Rect ************************************)
\* Pt -> Object (crate::Pt): a real number.
Pt_into(x) == Real(x)

Rect(llx, lly, urx, ury) == [ll |-> [x |-> llx, y |-> lly], ur |-> [x |-> urx, y |-> ury]]

(***************************** BorderArray, DashPhase **********************)
Solid(arr) == [variant |-> "Solid", arr |-> arr]
Dashed(arr, phase) == [variant |-> "Dashed", arr |-> arr, phase |-> phase]
DashPhase(dash_array, phase) == [dash_array |-> dash_array, phase |-> phase]

BorderArray_default == Solid(<<0, 0, 1>>)

\* The bug a reader of DashPhase::into would expect: the dash pattern embedded.
BorderArray_into_embedsDash(b) ==
    IF b.variant = "Solid"
    THEN Array(<<Real(b.arr[1]), Real(b.arr[2]), Real(b.arr[3])>>)
    ELSE Array(<<Real(b.arr[1]), Real(b.arr[2]), Real(b.arr[3]),
                 Array([i \in 1..Len(b.phase.dash_array) |-> Real(b.phase.dash_array[i])]),
                 Real(b.phase.phase)>>)

BorderArray_into(b) ==
    IF b.variant = "Solid"
    THEN Array(<<Real(b.arr[1]), Real(b.arr[2]), Real(b.arr[3])>>)
    ELSE Array(<<Real(b.arr[1]), Real(b.arr[2]), Real(b.arr[3]), Real(b.phase.phase)>>)

DashPhase_into(p) ==
    Array(<<Array([i \in 1..Len(p.dash_array) |-> Real(p.dash_array[i])]),
            Real(p.phase)>>)

(***************************** ColorArray **********************************)
Transparent == [variant |-> "Transparent", arr |-> <<>>]
Gray(arr) == [variant |-> "Gray", arr |-> arr]
RGB(arr) == [variant |-> "RGB", arr |-> arr]
CMYK(arr) == [variant |-> "CMYK", arr |-> arr]

ColorArray_default == RGB(<<0, 1, 1>>)

\* A CMYK arm copied from the RGB arm: the fourth component is lost.
ColorArray_into_cmykAsRgb(c) ==
    CASE c.variant = "Transparent" -> Array(<<>>)
      [] c.variant = "Gray" -> Array(<<Real(c.arr[1])>>)
      [] OTHER -> Array(<<Real(c.arr[1]), Real(c.arr[2]), Real(c.arr[3])>>)

ColorArray_into(c) ==
    CASE c.variant = "Transparent" -> Array(<<>>)
      [] c.variant = "Gray" -> Array(<<Real(c.arr[1])>>)
      [] c.variant = "RGB" -> Array(<<Real(c.arr[1]), Real(c.arr[2]), Real(c.arr[3])>>)
      [] c.variant = "CMYK" ->
            Array(<<Real(c.arr[1]), Real(c.arr[2]), Real(c.arr[3]), Real(c.arr[4])>>)

(***************************** HighlightingMode ****************************)
HighlightingModes == {"None", "Invert", "Outline", "Push"}
HighlightingMode_default == "Invert"

HighlightingMode_into(h) ==
    CASE h = "None" -> Name("N")
      [] h = "Invert" -> Name("I")
      [] h = "Outline" -> Name("O")
      [] h = "Push" -> Name("P")

(***************************** Destination, Actions ************************)
XYZ(page, left, top, zoom) ==
    [variant |-> "XYZ", page |-> page, left |-> left, top |-> top, zoom |-> zoom]
GoTo(destination) == [variant |-> "GoTo", destination |-> destination]
URI(uri) == [variant |-> "URI", uri |-> uri]

\* opt.map(Object::Real).unwrap_or(Object::Null)
RealOrNull(opt) == IF opt.some THEN Real(opt.v) ELSE Null

\* Destination::XYZ's doc comment read into the encoder: a zero is "unchanged" too.
RealOrNull_zeroIsNull(opt) == IF opt.some /\ opt.v # 0 THEN Real(opt.v) ELSE Null

\* The encoder with a substitute reference where the page is not in the context.
Actions_into_object_defaultRef(a, ctx) ==
    IF a.variant = "GoTo"
    THEN LET d == a.destination
             ref == IF d.page \in DOMAIN ctx THEN ctx[d.page] ELSE <<0, 0>>
         IN  Dictionary(Dict_set(Dict_set(Dictionary_new, "S", Name("GoTo")), "D",
                 Array(<<Reference(ref), String("XYZ"),
                         RealOrNull(d.left), RealOrNull(d.top), RealOrNull(d.zoom)>>)))
    ELSE Dictionary(Dict_set(Dict_set(Dictionary_new, "S", Name("URI")), "URI",
                 String(a.uri)))

\* The encoder with a null where the page is not in the context.
Actions_into_object_nullRef(a, ctx) ==
    IF a.variant = "GoTo"
    THEN LET d == a.destination
             ref == IF d.page \in DOMAIN ctx THEN Reference(ctx[d.page]) ELSE Null
         IN  Dictionary(Dict_set(Dict_set(Dictionary_new, "S", Name("GoTo")), "D",
                 Array(<<ref, String("XYZ"),
                         RealOrNull(d.left), RealOrNull(d.top), RealOrNull(d.zoom)>>)))
    ELSE Dictionary(Dict_set(Dict_set(Dictionary_new, "S", Name("URI")), "URI",
                 String(a.uri)))

\* The encoder with zero collapsed to null.
Actions_into_object_zeroIsNull(a, ctx) ==
    IF a.variant = "GoTo"
    THEN LET d == a.destination
         IN  IF d.page \notin DOMAIN ctx
             THEN Panic("page index should be valid object")
             ELSE Dictionary(Dict_set(Dict_set(Dictionary_new, "S", Name("GoTo")), "D",
                     Array(<<Reference(ctx[d.page]), String("XYZ"),
                             RealOrNull_zeroIsNull(d.left), RealOrNull_zeroIsNull(d.top),
                             RealOrNull_zeroIsNull(d.zoom)>>)))
    ELSE Dictionary(Dict_set(Dict_set(Dictionary_new, "S", Name("URI")), "URI",
                 String(a.uri)))

Actions_into_object(a, ctx) ==
    IF a.variant = "GoTo"
    THEN LET d == a.destination
         IN  IF d.page \notin DOMAIN ctx
             THEN Panic("page index should be valid object")
             ELSE Dictionary(Dict_set(Dict_set(Dictionary_new, "S", Name("GoTo")), "D",
                     Array(<<Reference(ctx[d.page]), String("XYZ"),
                             RealOrNull(d.left), RealOrNull(d.top), RealOrNull(d.zoom)>>)))
    ELSE Dictionary(Dict_set(Dict_set(Dictionary_new, "S", Name("URI")), "URI",
                 String(a.uri)))

(***************************** LinkAnnotation ******************************)
LinkAnnotation_new(rect, border, c, a, h) ==
    [rect |-> rect,
     border |-> unwrap_or(border, BorderArray_default),
     c |-> unwrap_or(c, ColorArray_default),
     a |-> a,
     h |-> unwrap_or(h, HighlightingMode_default)]

RectArray(rect) ==
    Array(<<Pt_into(rect.ll.x), Pt_into(rect.ll.y), Pt_into(rect.ur.x), Pt_into(rect.ur.y)>>)

\* The border stored under the colour's key "C": C is set twice, Border never.
LinkAnnotation_into_object_borderUnderC(self, ctx) ==
    LET d3 == Dict_set(Dict_set(Dict_set(Dictionary_new,
                  "Type", Name("Annot")), "Subtype", Name("Link")), "Rect", RectArray(self.rect))
        a == Actions_into_object(self.a, ctx)
    IN  IF IsPanic(a)
        THEN a
        ELSE Dictionary(Dict_set(Dict_set(Dict_set(Dict_set(d3,
                 "A", a), "C", BorderArray_into(self.border)),
                 "C", ColorArray_into(self.c)), "H", HighlightingMode_into(self.h)))

\* A panic in the action's encoder unwinds through this call: nothing is returned.
LinkAnnotation_into_object(self, ctx) ==
    LET d3 == Dict_set(Dict_set(Dict_set(Dictionary_new,
                  "Type", Name("Annot")), "Subtype", Name("Link")), "Rect", RectArray(self.rect))
        a == Actions_into_object(self.a, ctx)
    IN  IF IsPanic(a)
        THEN a
        ELSE Dictionary(Dict_set(Dict_set(Dict_set(Dict_set(d3,
                 "A", a), "Border", BorderArray_into(self.border)),
                 "C", ColorArray_into(self.c)), "H", HighlightingMode_into(self.h)))

(***************************** LinkAnnotationRef ***************************)
DigitChars == <<"0", "1", "2", "3", "4", "5", "6", "7", "8", "9">>

\* A formatter that keeps the last digit only.
Decimal_lastDigit(n) == DigitChars[(n % 10) + 1]

\* Display of a usize: its decimal digits, most significant first, no padding.
RECURSIVE Decimal(_)
Decimal(n) ==
    IF n < 10
    THEN DigitChars[n + 1]
    ELSE Decimal(n \div 10) \o DigitChars[(n % 10) + 1]

\* The index left out of the format string.
LinkAnnotationRef_new_noIndex(index) == [name |-> "PT"]

LinkAnnotationRef_new(index) == [name |-> "PT" \o Decimal(index)]

(***************************** HashMap *************************************)
HashMap_new == <<>>
HashMap_len(m) == Cardinality(DOMAIN m)
HashMap_is_empty(m) == DOMAIN m = {}
HashMap_insert(m, k, v) == [x \in DOMAIN m \cup {k} |-> IF x = k THEN v ELSE m[x]]

\* The orders a HashMap can be iterated in: every order of its keys.
IterOrders(m) ==
    {f \in [1..HashMap_len(m) -> DOMAIN m] :
        \A i, j \in 1..HashMap_len(m) : i # j => f[i] # f[j]}

(***************************** LinkAnnotationList **************************)
\* The handle built a second time, after the insert, and returned.
add_link_annotation_refAfterInsert(link_annotation) ==
    LET len == HashMap_len(link_annotations)
        link_annotation_ref == LinkAnnotationRef_new(len)
        stored == HashMap_insert(link_annotations, link_annotation_ref.name, link_annotation)
    IN  /\ link_annotations' = stored
        /\ issued' = Append(issued, [name |-> LinkAnnotationRef_new(HashMap_len(stored)).name,
                                      annotation |-> link_annotation])

add_link_annotation(link_annotation) ==
    LET len == HashMap_len(link_annotations)
        link_annotation_ref == LinkAnnotationRef_new(len)
    IN  /\ link_annotations' =
               HashMap_insert(link_annotations, link_annotation_ref.name, link_annotation)
        /\ issued' = Append(issued, [name |-> link_annotation_ref.name,
                                      annotation |-> link_annotation])

\* The rectangle of the annotation registered last instead of "PT0".
From_LinkAnnotationList_lastRect(val) ==
    IF HashMap_is_empty(val)
    THEN Ok(Dictionary_new)
    ELSE LET last == LinkAnnotationRef_new(HashMap_len(val) - 1).name
         IN  IF last \notin DOMAIN val
             THEN Panic("key not found")
             ELSE Ok(Dict_set(Dict_set(Dict_set(Dictionary_new,
                      "Type", Name("Annot")), "Subtype", Name("Link")),
                      "Rect", RectArray(val[last].rect)))

\* impl From<LinkAnnotationList> for Dictionary; indexing by a missing key panics.
From_LinkAnnotationList(val) ==
    IF HashMap_is_empty(val)
    THEN Ok(Dictionary_new)
    ELSE IF "PT0" \notin DOMAIN val
         THEN Panic("key not found")
         ELSE Ok(Dict_set(Dict_set(Dict_set(Dictionary_new,
                  "Type", Name("Annot")), "Subtype", Name("Link")),
                  "Rect", RectArray(val["PT0"].rect)))

\* The (name, annotation) pairs of the map in the order `order`.
into_iter(m, order) == [i \in 1..Len(order) |-> <<order[i], m[order[i]]>>]

\* encode_all: every pair of into_iter encoded in turn; the first panic unwinds
\* through the loop and nothing collected so far is returned.
RECURSIVE encode_from(_, _, _, _)
encode_from(items, ctx, i, acc) ==
    IF i > Len(items)
    THEN Ok(acc)
    ELSE LET obj == LinkAnnotation_into_object(items[i][2], ctx)
         IN  IF IsPanic(obj)
             THEN obj
             ELSE encode_from(items, ctx, i + 1, Append(acc, <<items[i][1], obj>>))

encode_all(m, ctx, order) == encode_from(into_iter(m, order), ctx, 1, <<>>)

(***************************** inputs **************************************)
Pages == 0..MaxPage
ObjIds == {<<5, 0>>, <<8, 1>>}
\* AnnotationContext.page_id_to_obj: any map from some of the pages to object ids.
Contexts == UNION {[S -> ObjIds] : S \in SUBSET Pages}

Triples == {<<0, 0, 1>>, <<4, 5, 6>>}
DashVals == {3, 7}
DashArrays == UNION {[1..n -> DashVals] : n \in 0..MaxDashLen}
Phases == {0, 3}
DashPhases == {DashPhase(d, p) : d \in DashArrays, p \in Phases}
Borders == {Solid(c) : c \in Triples} \cup {Dashed(c, d) : c \in Triples, d \in DashPhases}

Colors ==
    {Transparent} \cup {Gray(a) : a \in {<<0>>, <<5>>}}
                  \cup {RGB(a) : a \in {<<0, 1, 1>>, <<1, 2, 3>>}}
                  \cup {CMYK(a) : a \in {<<1, 2, 3, 4>>, <<0, 0, 0, 1>>}}

OptF32 == {None, Some(0), Some(792)}
Destinations == {XYZ(p, l, t, z) : p \in Pages, l \in OptF32, t \in OptF32, z \in OptF32}
Uris == {"https://example.com", ""}
ActionsSet == {GoTo(d) : d \in Destinations} \cup {URI(u) : u \in Uris}

Rects == {Rect(0, 0, 100, 50), Rect(10, 20, 30, 40)}
AnnBorders == {None, Some(Solid(<<4, 5, 6>>)), Some(Dashed(<<4, 5, 6>>, DashPhase(<<7>>, 3)))}
AnnColors == {None, Some(Transparent), Some(CMYK(<<1, 2, 3, 4>>))}
AnnModes == {None, Some("None"), Some("Push")}
AnnActions ==
    {GoTo(XYZ(p, v[1], v[2], v[3])) :
        p \in Pages,
        v \in {<<None, None, None>>, <<None, Some(792), None>>, <<Some(0), Some(0), Some(0)>>}}
    \cup {URI("https://example.com")}
Annotations ==
    {LinkAnnotation_new(r, b, c, a, h) :
        r \in Rects, b \in AnnBorders, c \in AnnColors, a \in AnnActions, h \in AnnModes}

\* The annotations and contexts of the registry's specifications.
ScenarioAnnotation ==
    LinkAnnotation_new(Rect(0, 0, 100, 50), None, None,
                       GoTo(XYZ(0, None, Some(792), None)), None)
ScenarioContext == [p \in {0} |-> <<5, 0>>]
RegAnnotations ==
    {ScenarioAnnotation,
     LinkAnnotation_new(Rect(10, 20, 30, 40), Some(Dashed(<<4, 5, 6>>, DashPhase(<<7>>, 3))),
                        Some(Transparent), GoTo(XYZ(1, Some(0), None, Some(0))), Some("Push")),
     LinkAnnotation_new(Rect(1, 2, 3, 4), None, Some(Gray(<<5>>)),
                        URI("https://example.com"), Some("Outline"))}
RegContexts == {ScenarioContext, [p \in {0, 1} |-> <<8 + p, 0>>], [p \in {} |-> <<0, 0>>]}

(***************************** the state machine ***************************)
NoOutput == [op |-> "none"]
NoCall == [op |-> "none"]

Init ==
    /\ link_annotations = HashMap_new
    /\ state = "open"
    /\ issued = <<>>
    /\ output = NoOutput
    /\ call = NoCall
    /\ result = Null

\* list.add_link_annotation(a) on a list the caller still owns.
Register ==
    /\ state = "open"
    /\ Len(issued) < MaxCalls
    /\ \E a \in RegAnnotations : add_link_annotation(a)
    /\ UNCHANGED <<state, output, call, result>>

RegisterMany ==
    /\ state = "open"
    /\ Len(issued) < MaxNameCalls
    /\ \E a \in {ScenarioAnnotation, LinkAnnotation_new(Rect(1, 2, 3, 4), None, None, URI(""), None)} :
           add_link_annotation(a)
    /\ UNCHANGED <<state, output, call, result>>

\* list.into_iter(): the list is moved into the iterator, which yields every pair.
IntoIter ==
    /\ state = "open"
    /\ \E order \in IterOrders(link_annotations) :
           output' = [op |-> "into_iter", items |-> into_iter(link_annotations, order)]
    /\ state' = "consumed"
    /\ link_annotations' = HashMap_new
    /\ UNCHANGED <<issued, call, result>>

\* Dictionary::from(list): the list is moved into the conversion.
Flatten ==
    /\ state = "open"
    /\ output' = [op |-> "from", res |-> From_LinkAnnotationList(link_annotations)]
    /\ state' = "consumed"
    /\ link_annotations' = HashMap_new
    /\ UNCHANGED <<issued, call, result>>

\* encode_all(ctx): the list is walked and every annotation encoded with ctx.
EncodeAll ==
    /\ state = "open"
    /\ \E ctx \in RegContexts, order \in IterOrders(link_annotations) :
           output' = [op |-> "encode_all", ctx |-> ctx, order |-> order,
                      res |-> encode_all(link_annotations, ctx, order)]
    /\ state' = "consumed"
    /\ link_annotations' = HashMap_new
    /\ UNCHANGED <<issued, call, result>>

Next == Register \/ IntoIter \/ Flatten \/ EncodeAll
Spec == Init /\ [][Next]_vars

NextNames == RegisterMany
SpecNames == Init /\ [][NextNames]_vars

\* The encoders, each applied to any input of its type in a fresh run.
EncodeBorder ==
    /\ call.op = "none"
    /\ \E b \in Borders :
           /\ call' = [op |-> "BorderArray::into", arg |-> b]
           /\ result' = BorderArray_into(b)
    /\ UNCHANGED <<link_annotations, state, issued, output>>

EncodeDashPhase ==
    /\ call.op = "none"
    /\ \E p \in DashPhases :
           /\ call' = [op |-> "DashPhase::into", arg |-> p]
           /\ result' = DashPhase_into(p)
    /\ UNCHANGED <<link_annotations, state, issued, output>>

EncodeColor ==
    /\ call.op = "none"
    /\ \E c \in Colors :
           /\ call' = [op |-> "ColorArray::into", arg |-> c]
           /\ result' = ColorArray_into(c)
    /\ UNCHANGED <<link_annotations, state, issued, output>>

EncodeMode ==
    /\ call.op = "none"
    /\ \E h \in HighlightingModes :
           /\ call' = [op |-> "HighlightingMode::into", arg |-> h]
           /\ result' = HighlightingMode_into(h)
    /\ UNCHANGED <<link_annotations, state, issued, output>>

EncodeAction ==
    /\ call.op = "none"
    /\ \E a \in ActionsSet, ctx \in Contexts :
           /\ call' = [op |-> "Actions::into_object", arg |-> a, ctx |-> ctx]
           /\ result' = Actions_into_object(a, ctx)
    /\ UNCHANGED <<link_annotations, state, issued, output>>

EncodeAnnotation ==
    /\ call.op = "none"
    /\ \E a \in Annotations, ctx \in Contexts :
           /\ call' = [op |-> "LinkAnnotation::into_object", arg |-> a, ctx |-> ctx]
           /\ result' = LinkAnnotation_into_object(a, ctx)
    /\ UNCHANGED <<link_annotations, state, issued, output>>

\* The same value (a clone) encoded once more with the same context.
EncodeAgain ==
    /\ call.op \in {"Actions::into_object", "LinkAnnotation::into_object"}
    /\ result' = IF call.op = "Actions::into_object"
                 THEN Actions_into_object(call.arg, call.ctx)
                 ELSE LinkAnnotation_into_object(call.arg, call.ctx)
    /\ UNCHANGED <<link_annotations, state, issued, output, call>>

NextEnc ==
    EncodeBorder \/ EncodeDashPhase \/ EncodeColor \/ EncodeMode \/ EncodeAction
        \/ EncodeAnnotation \/ EncodeAgain
SpecEnc == Init /\ [][NextEnc]_vars

(***************************** properties **********************************)
\* The value a dictionary holds under a key it has.
Dict_get(d, k) == d[CHOOSE i \in 1..Len(d) : d[i][1] = k][2]
\* A dictionary read as the map from its keys to their values.
DictAsMap(d) == [k \in Dict_keys(d) |-> Dict_get(d, k)]
\* Every key of the dictionary is held once.
KeysOnce(d) == Cardinality(Dict_keys(d)) = Len(d)

IssuedNames == {issued[k].name : k \in 1..Len(issued)}

\* The action of the last encoder call names a page the call's context does not map.
Unresolvable(a, ctx) == a.variant = "GoTo" /\ a.destination.page \notin DOMAIN ctx

CallAction ==
    IF call.op = "LinkAnnotation::into_object" THEN call.arg.a ELSE call.arg

\* C1: on a fresh list the k-th add_link_annotation call (0-based) returns the
\* handle "PT<k>" (k in decimal), whatever annotations are registered, so the N
\* handles of N calls are "PT0" .. "PT{N-1}" in call order and pairwise distinct.
C1_HandlesSequential ==
    /\ \A k \in 1..Len(issued) : issued[k].name = "PT" \o ToString(k - 1)
    /\ \A j, k \in 1..Len(issued) : j # k => issued[j].name # issued[k].name

C1_Witness ==
    /\ Len(issued) >= 11
    /\ issued[11].name = "PT10"
    /\ issued[1].annotation # issued[2].annotation

\* C2: while the list is open, the names it stores are exactly the handles
\* add_link_annotation has issued, one stored annotation per issued handle.
C2_IssuedHandlesStored ==
    state = "open" =>
        /\ DOMAIN link_annotations = IssuedNames
        /\ HashMap_len(link_annotations) = Len(issued)
        /\ \A k \in 1..Len(issued) : issued[k].name \in DOMAIN link_annotations

C2_Witness ==
    /\ state = "open"
    /\ Len(issued) = 3
    /\ issued[1].annotation = issued[3].annotation

\* C3: encoding a GoTo action whose page index the context does not map, alone or
\* inside its annotation, panics: no object is returned, on every evaluation.
C3_UnresolvablePagePanics ==
    (/\ call.op \in {"Actions::into_object", "LinkAnnotation::into_object"}
     /\ Unresolvable(CallAction, call.ctx))
        => /\ result = Panic("page index should be valid object")
           /\ ~IsObject(result)

C3_Witness ==
    /\ call.op = "LinkAnnotation::into_object"
    /\ Unresolvable(call.arg.a, call.ctx)
    /\ call.ctx # <<>>
    /\ IsPanic(result)

C5_GoToDestinationArray ==
    (/\ call.op = "Actions::into_object"
     /\ call.arg.variant = "GoTo"
     /\ call.arg.destination.page \in DOMAIN call.ctx)
        => /\ IsObject(result)
           /\ result.tag = "Dictionary"
           /\ KeysOnce(result.dict)
           /\ Dict_keys(result.dict) = {"S", "D"}
           /\ Dict_get(result.dict, "S") = Name("GoTo")
           /\ LET dest == call.arg.destination
                  D == Dict_get(result.dict, "D")
                  opts == <<dest.left, dest.top, dest.zoom>>
              IN  /\ D.tag = "Array"
                  /\ Len(D.items) = 5
                  /\ D.items[1] = Reference(call.ctx[dest.page])
                  /\ D.items[2] = String("XYZ")
                  /\ \A i \in 1..3 :
                         /\ opts[i].some => D.items[i + 2] = Real(opts[i].v)
                         /\ ~opts[i].some => D.items[i + 2] = Null

C5_Witness ==
    /\ call.op = "Actions::into_object"
    /\ call.arg.variant = "GoTo"
    /\ call.arg.destination.page \in DOMAIN call.ctx
    /\ call.arg.destination.left = None
    /\ call.arg.destination.zoom = Some(0)
    /\ Dict_get(result.dict, "D").items[5] = Real(0)

\* C6: an annotation whose action the context resolves encodes to a dictionary
\* holding exactly Type, Subtype, Rect, A, Border, C and H, once each, with the
\* values of the annotation's fields; the scenario of the specification encodes
\* to the dictionary written there.
C6_AnnotationDictionary ==
    (/\ call.op = "LinkAnnotation::into_object"
     /\ ~Unresolvable(call.arg.a, call.ctx))
        => /\ IsObject(result)
           /\ result.tag = "Dictionary"
           /\ KeysOnce(result.dict)
           /\ Len(result.dict) = 7
           /\ LET self == call.arg
              IN  DictAsMap(result.dict) =
                      [Type |-> Name("Annot"),
                       Subtype |-> Name("Link"),
                       Rect |-> Array(<<Real(self.rect.ll.x), Real(self.rect.ll.y),
                                        Real(self.rect.ur.x), Real(self.rect.ur.y)>>),
                       A |-> Actions_into_object(self.a, call.ctx),
                       Border |-> BorderArray_into(self.border),
                       C |-> ColorArray_into(self.c),
                       H |-> HighlightingMode_into(self.h)]
           /\ (call.arg = ScenarioAnnotation /\ call.ctx = ScenarioContext)
                  => DictAsMap(result.dict) =
                         [Type |-> Name("Annot"),
                          Subtype |-> Name("Link"),
                          Rect |-> Array(<<Real(0), Real(0), Real(100), Real(50)>>),
                          A |-> Dictionary(<<<<"S", Name("GoTo")>>,
                                             <<"D", Array(<<Reference(<<5, 0>>), String("XYZ"),
                                                            Null, Real(792), Null>>)>>>>),
                          Border |-> Array(<<Real(0), Real(0), Real(1)>>),
                          C |-> Array(<<Real(0), Real(1), Real(1)>>),
                          H |-> Name("I")]

C6_Witness ==
    /\ call.op = "LinkAnnotation::into_object"
    /\ call.arg = ScenarioAnnotation
    /\ call.ctx = ScenarioContext
    /\ IsObject(result)

\* C7: Solid(c) encodes to the array of c's three components in order; Dashed(c,
\* dash) to the four-element array of c's components and dash.phase, with no
\* nested array and no dash_array value that is not a component or the phase.
C7_BorderArray ==
    call.op = "BorderArray::into" =>
        LET b == call.arg
        IN  /\ IsObject(result)
            /\ result.tag = "Array"
            /\ b.variant = "Solid" =>
                   result.items = <<Real(b.arr[1]), Real(b.arr[2]), Real(b.arr[3])>>
            /\ b.variant = "Dashed" =>
                   /\ Len(result.items) = 4
                   /\ result.items =
                          <<Real(b.arr[1]), Real(b.arr[2]), Real(b.arr[3]), Real(b.phase.phase)>>
                   /\ \A i \in 1..Len(result.items) : result.items[i].tag = "Real"
                   /\ \A j \in 1..Len(b.phase.dash_array) :
                          LET v == b.phase.dash_array[j]
                          IN  v \notin {b.arr[1], b.arr[2], b.arr[3], b.phase.phase}
                                  => \A i \in 1..Len(result.items) : result.items[i] # Real(v)

C7_Witness ==
    /\ call.op = "BorderArray::into"
    /\ call.arg.variant = "Dashed"
    /\ call.arg.phase.dash_array = <<7, 3>>
    /\ call.arg.phase.phase = 0
    /\ Len(result.items) = 4

\* C8: a colour encodes to an array as long as its variant's arity (Transparent
\* 0, Gray 1, RGB 3, CMYK 4) holding its components in declared order.
C8_ColorArray ==
    call.op = "ColorArray::into" =>
        LET c == call.arg
            arity == CASE c.variant = "Transparent" -> 0
                       [] c.variant = "Gray" -> 1
                       [] c.variant = "RGB" -> 3
                       [] c.variant = "CMYK" -> 4
        IN  /\ IsObject(result)
            /\ result.tag = "Array"
            /\ Len(result.items) = arity
            /\ Len(c.arr) = arity
            /\ \A i \in 1..arity : result.items[i] = Real(c.arr[i])

C8_Witness ==
    /\ call.op = "ColorArray::into"
    /\ call.arg.variant = "CMYK"
    /\ Len(result.items) = 4
    /\ result.items[4] = Real(4)

\* C9: flattening a list into one dictionary never panics: an empty list gives
\* the empty dictionary, any other exactly Type = Annot, Subtype = Link and the
\* Rect of the annotation registered first, however many were registered after.
C9_FlattenFirstRect ==
    output.op = "from" =>
        /\ ~IsPanic(output.res)
        /\ Len(issued) = 0 => output.res.ok = <<>>
        /\ Len(issued) > 0 =>
               LET r == issued[1].annotation.rect
               IN  /\ KeysOnce(output.res.ok)
                   /\ DictAsMap(output.res.ok) =
                          [Type |-> Name("Annot"),
                           Subtype |-> Name("Link"),
                           Rect |-> Array(<<Real(r.ll.x), Real(r.ll.y),
                                            Real(r.ur.x), Real(r.ur.y)>>)]

C9_Witness ==
    /\ output.op = "from"
    /\ Len(issued) = 3
    /\ issued[1].annotation.rect # issued[3].annotation.rect
    /\ issued[1].annotation.rect # issued[2].annotation.rect
    /\ ~IsPanic(output.res)

\* C10: into_iter after N add_link_annotation calls yields N pairs, every issued
\* handle once and with the annotation its call registered; nothing is
\* registered once the list is consumed.
C10_IntoIterYieldsRegistered ==
    output.op = "into_iter" =>
        /\ state = "consumed"
        /\ Len(output.items) = Len(issued)
        /\ \A k \in 1..Len(issued) :
               /\ Cardinality({i \in 1..Len(output.items) :
                                  output.items[i][1] = issued[k].name}) = 1
               /\ \E i \in 1..Len(output.items) :
                      output.items[i] = <<issued[k].name, issued[k].annotation>>

C10_Witness ==
    /\ output.op = "into_iter"
    /\ Len(issued) = 3
    /\ output.items[1][1] = "PT2"
    /\ issued[1].annotation # issued[2].annotation
    /\ issued[1].annotation = issued[3].annotation

====
